---- MODULE Spec2Model ----
(***************************************************************************)
(* PathPlanning (EagleEye/StateEstimator.cpp): the short-horizon obstacle  *)
(* avoidance planner.  findPath snapshots the obstacles, reads the vehicle *)
(* state from the blackboard and runs the recursive treeSearch over the    *)
(* candidates of getVelocities, each evaluated by simulatePath and         *)
(* calculateDistance.                                                      *)
(*                                                                         *)
(* Numbers.  The code computes in double; the model computes in integers:  *)
(* lengths and positions in millimetres, steering angles in degrees,       *)
(* orientation and swept angles in 1/Scale radian, unit vectors and        *)
(* trigonometric values in 1/Scale.  Every division rounds to the nearest  *)
(* integer (RDiv).                                                         *)
(***************************************************************************)
EXTENDS Integers, Sequences, FiniteSets

(***************************************************************************)
(* Arithmetic on the fixed-point representation of double.                 *)
(***************************************************************************)
Scale == 10000

Pi == 31416

Abs(x) == IF x < 0 THEN -x ELSE x

Min(a, b) == IF a <= b THEN a ELSE b

Sign(x) == IF x < 0 THEN -1 ELSE IF x > 0 THEN 1 ELSE 0

\* a / b, rounded to the nearest integer (half away from zero)
RDiv(a, b) ==
    LET n == IF b < 0 THEN -a ELSE a
        d == Abs(b)
    IN  IF n >= 0 THEN (2 * n + d) \div (2 * d)
                  ELSE -((2 * (-n) + d) \div (2 * d))

RECURSIVE SqrtIter(_, _)
SqrtIter(n, x) ==
    LET y == (x + n \div x) \div 2
    IN  IF y >= x THEN x ELSE SqrtIter(n, y)

\* sqrt(n), rounded to the nearest integer
Sqrt(n) ==
    IF n <= 0 THEN 0
    ELSE LET f == SqrtIter(n, Min(n, 46340))
         IN  IF n - f * f > f THEN f + 1 ELSE f

(***************************************************************************)
(* Angle (Elementary/Angle.h).  A steering angle is held in degrees, an    *)
(* orientation in 1/Scale radian.                                          *)
(***************************************************************************)
\* Angle::deg_angle followed by Angle::get_deg_180: the angle in [-180, 180)
get_deg_180(deg) == ((deg + 180) % 360) - 180

deg_angle(deg) == get_deg_180(deg)

\* an angle in 1/Scale radian, normalised to (-Pi, Pi]
NormPi(a) == ((a + Pi - 1) % (2 * Pi)) - Pi + 1

\* Angle::get_rad_pi of a steering angle: radians in (-pi, pi]
get_rad_pi(deg) == NormPi(RDiv(deg * Pi, 180))

\* Angle::rad_angle
rad_angle(a) == NormPi(a)

\* sin and cos on [0, pi/2] by their Taylor polynomials (Horner form)
SinPoly(x) ==
    LET t  == RDiv(x * x, Scale)
        s4 == Scale - RDiv(t, 72)
        s3 == Scale - RDiv(t * s4, 42 * Scale)
        s2 == Scale - RDiv(t * s3, 20 * Scale)
        s1 == Scale - RDiv(t * s2, 6 * Scale)
    IN  RDiv(x * s1, Scale)

CosPoly(x) ==
    LET t  == RDiv(x * x, Scale)
        c4 == Scale - RDiv(t, 56)
        c3 == Scale - RDiv(t * c4, 30 * Scale)
        c2 == Scale - RDiv(t * c3, 12 * Scale)
    IN  Scale - RDiv(t * c2, 2 * Scale)

Sin(a) ==
    LET x == NormPi(a)
        y == Abs(x)
        z == IF 2 * y > Pi THEN Pi - y ELSE y
    IN  Sign(x) * SinPoly(z)

Cos(a) ==
    LET y == Abs(NormPi(a))
    IN  IF 2 * y > Pi THEN -CosPoly(Pi - y) ELSE CosPoly(y)

Tan(a) == RDiv(Sin(a) * Scale, Cos(a))

(***************************************************************************)
(* Vec and Circle (Elementary/Vec.h, Vehicle/vehicle.h).                     *)
(***************************************************************************)
Vec(x, y) == [x |-> x, y |-> y]

\* the Vec whose coordinates are NaN (the quotient 0.0 / 0.0 and whatever is
\* computed from it)
NaNVec == [nan |-> TRUE]

IsNaN(v) == "nan" \in DOMAIN v

VAdd(a, b) == IF IsNaN(a) \/ IsNaN(b) THEN NaNVec ELSE Vec(a.x + b.x, a.y + b.y)

VSub(a, b) == IF IsNaN(a) \/ IsNaN(b) THEN NaNVec ELSE Vec(a.x - b.x, a.y - b.y)

\* Vec * Vec: the scalar product
Dot(a, b) == a.x * b.x + a.y * b.y

Cross(a, b) == a.x * b.y - a.y * b.x

length(v) == Sqrt(v.x * v.x + v.y * v.y)

\* Vec::normalize: the unit vector, in 1/Scale; the zero vector is divided by
\* its length 0 and yields NaN
normalize(v) ==
    IF IsNaN(v) THEN NaNVec
    ELSE IF v.x = 0 /\ v.y = 0 THEN NaNVec
    ELSE Vec(RDiv(v.x * Scale, length(v)), RDiv(v.y * Scale, length(v)))

\* double * unit vector
ScaleUnit(d, u) ==
    IF IsNaN(u) THEN NaNVec ELSE Vec(RDiv(d * u.x, Scale), RDiv(d * u.y, Scale))

\* Vec::rotate, Vec::s_rotate: counter-clockwise by the angle a
rotate(v, a) ==
    IF IsNaN(v) THEN NaNVec
    ELSE Vec(RDiv(v.x * Cos(a) - v.y * Sin(a), Scale),
             RDiv(v.x * Sin(a) + v.y * Cos(a), Scale))

rotate_quarter(v) == Vec(-v.y, v.x)

\* Vec::inbetween: v lies in the sector swept counter-clockwise from v1 to v2
inbetween(v, v1, v2) ==
    IF Cross(v1, v2) >= 0
    THEN Cross(v1, v) >= 0 /\ Cross(v, v2) >= 0
    ELSE Cross(v1, v) >= 0 \/ Cross(v, v2) >= 0

Circle(c, r) == [center |-> c, radius |-> r]

\* Circle::distance: centre distance minus both radii
CircleDistance(a, b) == length(VSub(a.center, b.center)) - a.radius - b.radius

(***************************************************************************)
(* Configuration read by the constructor.  max_depth is a variable chosen  *)
(* at construction; the other values are fixed.                            *)
(***************************************************************************)
\* PathPlanning::time_step is 0.1 s; dt_ms is dt * 1000
dt_ms == 100

collision_penalty == 1000

axis_distance == 500

car_circle_radius == 150

\* the largest configured max_depth the model explores
MaxDepthBound == 1

(***************************************************************************)
(* State, Velocity (Vehicle/vehicle.h)                                     *)
(***************************************************************************)
State(rear, orientation, velocity, steer) ==
    [sg_position   |-> VAdd(rear, rotate(Vec(axis_distance, 0), orientation)),
     rear_position |-> rear,
     orientation   |-> orientation,
     velocity      |-> velocity,
     steer         |-> steer]

Velocity(velocity, steer) == [velocity |-> velocity, steer |-> steer]

\* Velocity maximizing_velocity; (default-constructed)
DefaultVelocity == Velocity(0, 0)

(***************************************************************************)
(* getVelocities                                                           *)
(***************************************************************************)
\* the bound test with the bound itself admitted
AdmissibleInclusive(new_delta) == Abs(new_delta) <= 30

\* the steering bound test of getVelocities (line 85)
Admissible(new_delta) == Abs(new_delta) < 30

getVelocities(state) ==
    LET delta        == get_deg_180(state.steer)
        new_delta(i) == delta + i * 5
        offsets      == SelectSeq(<<-2, -1, 0, 1, 2>>,
                                  LAMBDA i : Admissible(new_delta(i)))
    IN  [k \in 1..Len(offsets) |->
            Velocity(state.velocity, deg_angle(new_delta(offsets[k])))]

(***************************************************************************)
(* getCarCircles, calculateDistance, simulatePath                          *)
(***************************************************************************)
getCarCircles(state) ==
    << Circle(state.sg_position, car_circle_radius),
       Circle(state.rear_position, car_circle_radius),
       Circle(IF IsNaN(state.sg_position) \/ IsNaN(state.rear_position)
              THEN NaNVec
              ELSE Vec(RDiv(state.sg_position.x + state.rear_position.x, 2),
                       RDiv(state.sg_position.y + state.rear_position.y, 2)),
              car_circle_radius) >>

\* lines 177-182: the obstacle centre o lies in the sector about the ICM
\* between the start p and the end q of the footprint circle
SectorTest(ICM, o, p, q, direction_flag) ==
    IF direction_flag > 0
    THEN inbetween(VSub(o, ICM), VSub(p, ICM), VSub(q, ICM))
    ELSE inbetween(VSub(o, ICM), VSub(q, ICM), VSub(p, ICM))

\* line 187, without the radius of the footprint circle
RadialClearanceOfCentre(R, d_obst, obstacle, vehicle_point) ==
    Abs(R - d_obst) - obstacle.radius

\* line 187: the clearance of an obstacle inside the swept sector
RadialClearance(R, d_obst, obstacle, vehicle_point) ==
    Abs(R - d_obst) - obstacle.radius - vehicle_point.radius

\* vehicle_point is a number here (MinDistance leaves out the NaN start
\* circles).  With a NaN end circle or ICM every comparison is false and
\* min(a, NaN) is a: the result is the distance to the start circle.
calculateDistance(ICM, obstacle, vehicle_point, vehicle_point_end, direction_flag) ==
    LET o   == obstacle.center
        p   == vehicle_point.center
        q   == vehicle_point_end.center
        ends == Min(CircleDistance(obstacle, vehicle_point),
                    CircleDistance(obstacle, vehicle_point_end))
    IN  IF IsNaN(q) \/ IsNaN(ICM)
        THEN CircleDistance(obstacle, vehicle_point)
        ELSE IF direction_flag = 0
        THEN IF Dot(VSub(o, p), VSub(q, p)) >= 0 /\ Dot(VSub(o, q), VSub(p, q)) >= 0
             THEN LET line_unit_normal == normalize(rotate_quarter(VSub(q, p)))
                      distance_obstacle_line ==
                          Abs(RDiv(Dot(VSub(o, p), line_unit_normal), Scale))
                  IN  distance_obstacle_line - obstacle.radius - vehicle_point.radius
             ELSE ends
        ELSE IF SectorTest(ICM, o, p, q, direction_flag)
             THEN RadialClearance(length(VSub(ICM, p)), length(VSub(o, ICM)),
                                  obstacle, vehicle_point)
             ELSE ends

\* the end state of one motion step (simulatePath, lines 97-141)
\* the rear point left where it was
MoveRearSkipped(p, movement) == p

\* line 127: state.rear_position += movement
MoveRear(p, movement) == VAdd(p, movement)

EndState(state) ==
    LET direction_flag == Sign(get_rad_pi(state.steer))
        distance       == state.velocity * dt_ms
    IN  IF direction_flag = 0
        THEN LET movement ==
                     ScaleUnit(distance,
                               normalize(VSub(state.sg_position, state.rear_position)))
             IN  [state EXCEPT !.sg_position   = VAdd(@, movement),
                               !.rear_position = MoveRear(@, movement)]
        ELSE LET R_h   == RDiv(axis_distance * Scale, Tan(get_rad_pi(state.steer)))
                 ICM   == VAdd(rotate(Vec(0, R_h), state.orientation),
                               state.rear_position)
                 alpha == rad_angle(RDiv(distance * Scale, R_h))
             IN  [state EXCEPT
                    !.sg_position   = VAdd(rotate(VSub(@, ICM), alpha), ICM),
                    !.rear_position = VAdd(rotate(VSub(@, ICM), alpha), ICM),
                    !.orientation   = rad_angle(@ + alpha)]

\* the ICM of the step (lines 129-133); unused in the straight case
StepICM(state) ==
    IF Sign(get_rad_pi(state.steer)) = 0
    THEN Vec(0, 0)
    ELSE VAdd(rotate(Vec(0, RDiv(axis_distance * Scale, Tan(get_rad_pi(state.steer)))),
                     state.orientation),
              state.rear_position)

MinOf(S) == CHOOSE m \in S : \A x \in S : m <= x

\* lines 143-154: min_distance over the footprint circles before and after
\* the step and the obstacles
InitialMinDistanceNegated == -(2 * collision_penalty)

\* line 146: double min_distance = 2 * collision_penalty
InitialMinDistance == 2 * collision_penalty

MinDistance(state, end, ICM, obst) ==
    MinOf({InitialMinDistance} \cup
          { calculateDistance(ICM, obst[j], getCarCircles(state)[i],
                              getCarCircles(end)[i], Sign(get_rad_pi(state.steer))) :
            i \in { c \in 1..3 : ~IsNaN(getCarCircles(state)[c].center) },
            j \in 1..Len(obst) })

SimulateTo(state, end, obst) ==
    [state |-> end, distance |-> MinDistance(state, end, StepICM(state), obst)]

\* simulatePath over a given obstacle vector: the end state and min_distance
Simulate(state, obst) == SimulateTo(state, EndState(state), obst)

(***************************************************************************)
(* The planner as a state machine.  One findPath call is the recursion of  *)
(* treeSearch, held as a stack of frames: a frame is one activation of     *)
(* treeSearch with its parameters (state, depth) and its locals            *)
(* (velocities, values, the loop index i, the distance of the candidate    *)
(* whose recursive call is in progress).                                   *)
(***************************************************************************)
VARIABLES
    obstacles,            \* PathPlanning::obstacles
    bbState,              \* the vehicle state on the blackboard (BBOARD->getState())
    max_depth,            \* PathPlanning::max_depth
    pc,                   \* "idle", "search" (inside findPath) or "crashed"
    stack,                \* the activations of treeSearch, outermost first
    maximizing_velocity,  \* findPath's local; after the return, the command returned
    call,                 \* history: the arguments of the current or last findPath call
    returned,             \* history: the node and value of a treeSearch that has just returned
    first                 \* history: the first completed call and its result

vars == <<obstacles, bbState, max_depth, pc, stack, maximizing_velocity,
          call, returned, first>>

None == [none |-> TRUE]

\* the vehicle states the estimator publishes, and the obstacle vectors the
\* perception passes to findPath
StartSteers == {0, 25, -35, 40}

StartVelocities == {1, 2}

States == { State(Vec(0, 0), 0, v, st) : v \in StartVelocities, st \in StartSteers }

ObstacleLists ==
    { << >>,
      << Circle(Vec(600, 270), 100) >>,
      << Circle(Vec(900, 0), 100) >>,
      << Circle(Vec(600, 270), 100), Circle(Vec(960, 0), 100) >> }

\* what an out-of-bounds read of an empty vector can yield
GarbageVelocities == { Velocity(0, 0), Velocity(7, 45) }

GarbageValues == { 0, 123 }

\* double PathPlanning::simulatePath(State& state) const: reads the member obstacles
simulatePath(state) == Simulate(state, obstacles)

\* a new activation treeSearch(state, depth, ...): line 56-57
Frame(state, depth) ==
    [state      |-> state,
     depth      |-> depth,
     velocities |-> getVelocities(state),
     values     |-> << >>,
     i          |-> 1,
     distance   |-> 0,
     dists      |-> << >>,   \* history: the distance of each candidate simulated
     safe       |-> << >>]   \* history: the branch holds a collision-free path to the horizon

Top == stack[Len(stack)]

\* the recursion without its horizon test
RecurseNoHorizon(distance, depth) == distance > 0

\* line 65: the candidate is expanded by a recursive call
Recurse(distance, depth) == distance > 0 /\ depth < max_depth

\* the penalty added instead of subtracted
CollisionValueAdded(distance) == distance + collision_penalty

\* line 70: the value of a colliding candidate
CollisionValue(distance) == distance - collision_penalty

\* the new obstacles appended to the stored ones
SnapshotAppended(obst) == obstacles \o obst

\* line 49: obstacles = obst
Snapshot(obst) == obst

\* std::max_element: the index of the first largest element
max_element(values) ==
    CHOOSE k \in 1..Len(values) :
        /\ \A j \in 1..Len(values) : values[j] <= values[k]
        /\ \A j \in 1..(k - 1) : values[j] < values[k]

Init ==
    /\ obstacles = << >>
    /\ bbState \in States
    /\ max_depth \in 0..MaxDepthBound
    /\ pc = "idle"
    /\ stack = << >>
    /\ maximizing_velocity = DefaultVelocity
    /\ call = None
    /\ returned = None
    /\ first = None

\* the estimator publishes a new vehicle state between two planning cycles
setState(s) ==
    /\ pc = "idle"
    /\ bbState' = s
    /\ returned' = None
    /\ UNCHANGED <<obstacles, max_depth, pc, stack, maximizing_velocity, call, first>>

\* findPath, lines 48-51: up to the call of treeSearch
findPath(obst) ==
    /\ pc = "idle"
    /\ obstacles' = Snapshot(obst)
    /\ maximizing_velocity' = DefaultVelocity
    /\ stack' = << Frame(bbState, 0) >>
    /\ pc' = "search"
    /\ call' = [state |-> bbState, obst |-> obst]
    /\ returned' = None
    /\ UNCHANGED <<bbState, max_depth, first>>

\* lines 61-63: the copy of the node's state that carries candidate i
StateCopy(f) ==
    [f.state EXCEPT !.velocity = f.velocities[f.i].velocity,
                    !.steer    = f.velocities[f.i].steer]

\* the simulation working on the node's state itself
NodeStateAliased(f, sim) == sim.state

\* lines 61, 64: simulatePath works on state_copy, a copy made by value, so
\* the node's own state is what it was
NodeState(f, sim) == f.state

\* lines 64-71: the frames that replace the top frame f once its candidate i
\* has been simulated with the result sim
Expand(f, sim) ==
    IF Recurse(sim.distance, f.depth)
    THEN << [f EXCEPT !.state    = NodeState(f, sim),
                      !.distance = sim.distance,
                      !.dists    = Append(@, sim.distance)],
            Frame(sim.state, f.depth + 1) >>
    ELSE << [f EXCEPT !.state  = NodeState(f, sim),
                      !.values = Append(@, IF sim.distance > 0
                                           THEN sim.distance
                                           ELSE CollisionValue(sim.distance)),
                      !.dists  = Append(@, sim.distance),
                      !.safe   = Append(@, sim.distance > 0),
                      !.i      = @ + 1] >>

\* treeSearch, lines 59-72: one iteration of the loop over the candidates
treeSearchLoop ==
    /\ pc = "search"
    /\ Top.i <= Len(Top.velocities)
    /\ stack' = SubSeq(stack, 1, Len(stack) - 1)
                   \o Expand(Top, simulatePath(StateCopy(Top)))
    /\ returned' = None
    /\ UNCHANGED <<obstacles, bbState, max_depth, pc, maximizing_velocity, call, first>>

\* the effect of treeSearch returning value from the top frame, whose
\* maximising candidate is `best` (lines 74-77, and lines 66, 51-52 of the caller)
Return(value, best, anySafe) ==
    /\ returned' = [state |-> Top.state, depth |-> Top.depth, value |-> value]
    /\ IF Top.depth = 0
       THEN /\ maximizing_velocity' = best
            /\ stack' = << >>
            /\ pc' = "idle"
            /\ first' = IF first = None
                        THEN [state |-> call.state, obst |-> call.obst, cmd |-> best]
                        ELSE first
       ELSE /\ LET parent == stack[Len(stack) - 1]
               IN  stack' = SubSeq(stack, 1, Len(stack) - 2)
                      \o << [parent EXCEPT
                               !.values = Append(@, parent.distance + value),
                               !.safe   = Append(@, anySafe),
                               !.i      = @ + 1] >>
            /\ UNCHANGED <<maximizing_velocity, pc, first>>
    /\ UNCHANGED <<obstacles, bbState, max_depth, call>>

\* treeSearch, lines 73-77, with at least one value
treeSearchReturn ==
    /\ pc = "search"
    /\ Top.i > Len(Top.velocities)
    /\ Top.values # << >>
    /\ LET arg_max == max_element(Top.values)
       IN  Return(Top.values[arg_max], Top.velocities[arg_max],
                  \E k \in 1..Len(Top.safe) : Top.safe[k])

\* treeSearch, lines 73-77, with no candidate: max_element returns end(),
\* arg_max is 0 and velocities[0], values[0] read past the end of empty
\* vectors.  The read faults, or yields whatever the memory holds.
treeSearchEmpty ==
    /\ pc = "search"
    /\ Top.i > Len(Top.velocities)
    /\ Top.values = << >>
    /\ \E fault \in BOOLEAN :
         IF fault
         THEN /\ pc' = "crashed"
              /\ returned' = None
              /\ UNCHANGED <<obstacles, bbState, max_depth, stack,
                             maximizing_velocity, call, first>>
         ELSE \E v \in GarbageVelocities, x \in GarbageValues : Return(x, v, FALSE)

Next ==
    \/ \E s \in States : setState(s)
    \/ \E obst \in ObstacleLists : findPath(obst)
    \/ treeSearchLoop
    \/ treeSearchReturn
    \/ treeSearchEmpty

Spec == Init /\ [][Next]_vars

(***************************************************************************)
(* simulatePath as a function of its arguments: one call on a state and an *)
(* obstacle vector drawn from the sets below.  bbState holds the State     *)
(* argument, obstacles the member the call reads, returned the argument    *)
(* together with the result.                                               *)
(***************************************************************************)
\* the distance of the front reference point from the rear one: the
\* wheelbase, none (coincident points, as in a default-constructed State)
\* and a distance that is not the wheelbase
SimHeadings == {axis_distance, 0, 400}

\* 0 and pi / 2
SimOrientations == {0, 15708}

SimVelocities == {-5, -2, 2, 5, 10}

SimSteers == {-20, 0, 20}

SimState(heading, orientation, velocity, steer) ==
    [State(Vec(0, 0), orientation, velocity, steer)
        EXCEPT !.sg_position = rotate(Vec(heading, 0), orientation)]

SimStates ==
    { SimState(h, o, v, st) :
        h \in SimHeadings, o \in SimOrientations,
        v \in SimVelocities, st \in SimSteers }

\* obstacles ahead on the heading line, and obstacles on the circle
\* about the ICM on which the rear point moves at 20 and -20 degrees
SimObstacleLists ==
    { << >>,
      << Circle(Vec(2500, 0), 500) >>,
      << Circle(Vec(0, 2500), 500) >>,
      << Circle(Vec(360, 48), 10) >>,
      << Circle(Vec(360, -48), 10), Circle(Vec(-360, 48), 10) >> }

SimInit ==
    /\ obstacles \in SimObstacleLists
    /\ bbState \in SimStates
    /\ max_depth = 0
    /\ pc = "idle"
    /\ stack = << >>
    /\ maximizing_velocity = DefaultVelocity
    /\ call = None
    /\ returned = None
    /\ first = None

\* std::pair<State, double> result = simulatePath(state)
simulateCall ==
    /\ returned = None
    /\ returned' = [state |-> bbState, sim |-> simulatePath(bbState)]
    /\ UNCHANGED << obstacles, bbState, max_depth, pc, stack,
                    maximizing_velocity, call, first >>

SimNext == simulateCall

SimSpec == SimInit /\ [][SimNext]_vars

\* the argument and the result of the simulatePath call
SimIn == returned.state

SimOut == returned.sim.state

Simulated == returned # None /\ "sim" \in DOMAIN returned

\* the distance between the reference points of a state
Wheelbase(state) == length(VSub(state.sg_position, state.rear_position))

Straight(state) == Sign(get_rad_pi(state.steer)) = 0

Degenerate(state) == state.sg_position = state.rear_position

(***************************************************************************)
(* The value of the search tree, stated without the recursion's max: the   *)
(* set of the values of all paths below a node.  A path ends at its first  *)
(* colliding step or at the horizon.                                       *)
(***************************************************************************)
MaxOf(S) == CHOOSE m \in S : \A x \in S : x <= m

\* the step of candidate v from state, over the obstacle vector obst
StepOf(state, v, obst) ==
    Simulate([state EXCEPT !.velocity = v.velocity, !.steer = v.steer], obst)

RECURSIVE PathSums(_, _, _)

\* the values of the paths that begin with the step sim, made at depth
BranchSums(sim, depth, obst) ==
    IF sim.distance <= 0
    THEN { sim.distance - collision_penalty }
    ELSE IF depth < max_depth
         THEN { sim.distance + x : x \in PathSums(sim.state, depth + 1, obst) }
         ELSE { sim.distance }

PathSums(state, depth, obst) ==
    UNION { BranchSums(StepOf(state, getVelocities(state)[k], obst), depth, obst) :
            k \in 1..Len(getVelocities(state)) }

\* a findPath call has just returned
Returned == pc = "idle" /\ returned # None

(***************************************************************************)
(* C1: findPath returns the depth-0 candidate whose branch value is        *)
(* maximal among the depth-0 candidates of the current vehicle state, the  *)
(* earliest such candidate in the generator's order when several tie.      *)
(***************************************************************************)
C1_ReturnsFirstMaximalCandidate ==
    Returned =>
        LET cands  == getVelocities(call.state)
            val(k) == MaxOf(BranchSums(StepOf(call.state, cands[k], call.obst),
                                       0, call.obst))
        IN  \E k \in 1..Len(cands) :
                /\ maximizing_velocity = cands[k]
                /\ \A j \in 1..Len(cands) : val(j) <= val(k)
                /\ \A j \in 1..(k - 1) : val(j) < val(k)

(***************************************************************************)
(* C2: the value treeSearch returns for a node is the maximum over its     *)
(* candidates of the branch values, that is the maximum over all paths of  *)
(* the sum of the step clearances, a path ending at its first colliding    *)
(* step (clearance - collision_penalty) or at depth max_depth.             *)
(***************************************************************************)
C2_NodeValueIsMaxPathSum ==
    returned # None =>
        LET S == PathSums(returned.state, returned.depth, call.obst)
        IN  returned.value \in S /\ \A x \in S : x <= returned.value

(***************************************************************************)
(* C3 as stated: at any node a branch whose step collides has a value      *)
(* strictly lower than every sibling branch whose step does not collide.   *)
(***************************************************************************)
C3_CollidingBelowNonColliding ==
    \A n \in 1..Len(stack) : \A i, j \in 1..Len(stack[n].values) :
        (stack[n].dists[i] <= 0 /\ stack[n].dists[j] > 0)
            => stack[n].values[i] < stack[n].values[j]

(***************************************************************************)
(* C3 amended: at any node a branch whose step collides has a value        *)
(* strictly lower than every sibling branch that holds a collision-free    *)
(* path to the horizon (its step and one continuation at every deeper      *)
(* level up to max_depth do not collide).                                  *)
(***************************************************************************)
C3_CollidingBelowSafe ==
    \A n \in 1..Len(stack) : \A i, j \in 1..Len(stack[n].values) :
        (stack[n].dists[i] <= 0 /\ stack[n].safe[j])
            => stack[n].values[i] < stack[n].values[j]

\* a node above the horizon with a colliding branch and a sibling that is
\* collision-free down to the horizon
C3_Witness ==
    \E n \in 1..Len(stack) :
        /\ stack[n].depth < max_depth
        /\ \E i, j \in 1..Len(stack[n].values) :
              stack[n].dists[i] <= 0 /\ stack[n].safe[j]

(***************************************************************************)
(* C4: getVelocities returns at least one candidate for every steering     *)
(* angle, so no treeSearch takes a maximum over an empty value list and    *)
(* findPath never returns an unset command.                                *)
(***************************************************************************)
C4_AtLeastOneCandidate ==
    /\ \A n \in 1..Len(stack) : stack[n].velocities # << >>
    /\ Returned => \E k \in 1..Len(getVelocities(call.state)) :
                      maximizing_velocity = getVelocities(call.state)[k]

(***************************************************************************)
(* C5: getVelocities returns, in ascending offset order, exactly the       *)
(* commands (current velocity, current steer + i * 5 degrees) for the i in *)
(* -2..2 whose absolute steering angle is strictly below 30 degrees.       *)
(***************************************************************************)
C5_CandidatesExact ==
    \A n \in 1..Len(stack) :
        LET vs  == stack[n].velocities
            cur == stack[n].state.steer
        IN  /\ { vs[k].steer : k \in 1..Len(vs) }
                 = { cur + i * 5 : i \in -2..2 } \cap (-29..29)
            /\ \A k \in 1..(Len(vs) - 1) : vs[k].steer < vs[k + 1].steer
            /\ \A k \in 1..Len(vs) : vs[k].velocity = stack[n].state.velocity

\* a node whose candidates are cut by the bound, but not all of them
C5_Witness ==
    \E n \in 1..Len(stack) :
        /\ Len(stack[n].velocities) \in 1..4
        /\ \E i \in -2..2 : Abs(stack[n].state.steer + i * 5) = 30

(***************************************************************************)
(* C6: for every current steering angle the candidate sequence contains    *)
(* the zero-offset candidate (steer equal to the current steering angle).  *)
(***************************************************************************)
C6_ZeroOffsetIncluded ==
    \A n \in 1..Len(stack) :
        \E k \in 1..Len(stack[n].velocities) :
            stack[n].velocities[k].steer = stack[n].state.steer

(***************************************************************************)
(* C7: every findPath call terminates: the recursion never goes deeper     *)
(* than max_depth, every node expands at most 5 candidates, and every step *)
(* of the search strictly decreases a bound on the steps that remain, so   *)
(* no state of the search recurs.                                          *)
(***************************************************************************)
RECURSIVE NodeSteps(_)
\* the most steps one activation at depth d takes, its sub-calls included
NodeSteps(d) == 1 + 5 * (1 + IF d < max_depth THEN NodeSteps(d + 1) ELSE 0)

\* the steps frame n still has to take, its active sub-call excluded
FrameSteps(n) ==
    LET f    == stack[n]
        per  == 1 + IF f.depth < max_depth THEN NodeSteps(f.depth + 1) ELSE 0
        left == Len(f.velocities) - f.i + IF n = Len(stack) THEN 1 ELSE 0
    IN  left * per + 1

RECURSIVE SumSteps(_)
SumSteps(n) == IF n = 0 THEN 0 ELSE FrameSteps(n) + SumSteps(n - 1)

Measure == IF pc = "search" THEN SumSteps(Len(stack)) ELSE 0

Bounded ==
    /\ Len(stack) <= max_depth + 1
    /\ \A n \in 1..Len(stack) :
          /\ stack[n].depth = n - 1
          /\ Len(stack[n].velocities) <= 5
          /\ stack[n].i <= Len(stack[n].velocities) + 1

C7_SearchTerminates ==
    [][ /\ Bounded'
        /\ pc = "search" => (Measure' < Measure /\ Measure' >= 0) ]_vars

\* the recursion is at the horizon, below the root, with all five candidates
C7_Witness ==
    /\ pc = "search"
    /\ max_depth >= 1
    /\ Len(stack) = max_depth + 1
    /\ Len(Top.velocities) = 5
    /\ Top.i > Len(Top.velocities)

(***************************************************************************)
(* C8: two findPath calls made with identical vehicle state, obstacle list *)
(* and configuration return the identical command, whatever calls were     *)
(* made before them.                                                       *)
(***************************************************************************)
C8_SameInputsSameCommand ==
    (Returned /\ first # None /\ call.state = first.state /\ call.obst = first.obst)
        => maximizing_velocity = first.cmd

(***************************************************************************)
(* C9: with max_depth = 0 findPath makes no recursive call and returns the *)
(* first candidate that maximises the immediate one-step clearance.        *)
(***************************************************************************)
C9_DepthZeroArgmaxClearance ==
    max_depth = 0 =>
        /\ Len(stack) <= 1
        /\ Returned =>
             LET cands  == getVelocities(call.state)
                 clr(k) == StepOf(call.state, cands[k], call.obst).distance
             IN  \E k \in 1..Len(cands) :
                     /\ maximizing_velocity = cands[k]
                     /\ \A j \in 1..Len(cands) : clr(j) <= clr(k)
                     /\ \A j \in 1..(k - 1) : clr(j) < clr(k)

(***************************************************************************)
(* C10: from the start of a findPath call to its return and until the next *)
(* call, the stored obstacle vector is the list passed to that call (the   *)
(* lists of earlier calls are gone and the snapshot is not modified in     *)
(* between), and every clearance of the call is the clearance over that    *)
(* list.                                                                   *)
(***************************************************************************)
C10_OnlyThisCallsObstacles ==
    call # None =>
        /\ obstacles = call.obst
        /\ pc = "search" =>
              \A k \in 1..Len(Top.dists) :
                  Top.dists[k]
                      = StepOf(Top.state, Top.velocities[k], call.obst).distance

\* a call is simulating over a list that differs from the non-empty list of
\* an earlier call
C10_Witness ==
    /\ pc = "search"
    /\ first # None
    /\ first.obst # << >>
    /\ first.obst # call.obst
    /\ Top.dists # << >>

\* C11 (as stated): after every simulatePath call the rear and the front
\* reference point of the resulting state are axis_distance apart, whatever
\* the input pose.
C11_WheelbaseReestablished ==
    Simulated =>
        /\ ~IsNaN(SimOut.sg_position) /\ ~IsNaN(SimOut.rear_position)
        /\ Abs(Wheelbase(SimOut) - axis_distance) <= 1

\* C11: a step moves both reference points rigidly: the distance between
\* them in the resulting state is the distance in the input state, within the
\* rounding of the rotation, and is axis_distance only when the input has
\* it; a straight step on coincident points yields NaN positions.
C11_WheelbaseCarriedOver ==
    Simulated =>
        IF Straight(SimIn) /\ Degenerate(SimIn)
        THEN IsNaN(SimOut.sg_position) /\ IsNaN(SimOut.rear_position)
        ELSE /\ ~IsNaN(SimOut.sg_position) /\ ~IsNaN(SimOut.rear_position)
             /\ Abs(Wheelbase(SimOut) - Wheelbase(SimIn)) <= 1

C11_Witness ==
    /\ Simulated
    /\ Wheelbase(SimIn) # axis_distance
    /\ ~Degenerate(SimIn)
    /\ ~IsNaN(SimOut.rear_position)
    /\ SimOut.rear_position # SimIn.rear_position

\* C12: with an empty obstacle list every simulatePath call of the search
\* returns 2 * collision_penalty, which is positive, and no candidate at any
\* node gets the value of a collision.
C12_EmptyListSentinel ==
    (pc = "search" /\ obstacles = << >>) =>
        \A n \in 1..Len(stack) :
            \A k \in 1..Len(stack[n].dists) :
                /\ stack[n].dists[k] = 2 * collision_penalty
                /\ stack[n].dists[k] > 0
                /\ k <= Len(stack[n].values) => stack[n].values[k] >= stack[n].dists[k]
                /\ k <= Len(stack[n].safe) => stack[n].safe[k]

C12_Witness ==
    /\ pc = "search"
    /\ obstacles = << >>
    /\ Len(stack) = 2
    /\ Len(Top.values) >= 1
    /\ Len(stack[1].values) >= 1

\* C13: a straight step on a state whose two reference points coincide does
\* not normalize the zero vector: it leaves the pose unchanged and yields the
\* maximal clearance 2 * collision_penalty.
C13_DegenerateStepGuarded ==
    (Simulated /\ Straight(SimIn) /\ Degenerate(SimIn)) =>
        /\ SimOut.sg_position = SimIn.sg_position
        /\ SimOut.rear_position = SimIn.rear_position
        /\ SimOut.orientation = SimIn.orientation
        /\ returned.sim.distance = 2 * collision_penalty

\* the displacement of a reference point from p to q is d / 1000 position
\* units long and points along the heading of the state
DisplacedAlongHeading(state, p, q, d) ==
    LET heading == VSub(state.sg_position, state.rear_position)
    IN  /\ 1000 * length(VSub(q, p)) = Abs(d)
        /\ Cross(VSub(q, p), heading) = 0
        /\ Dot(VSub(q, p), heading) * Sign(d) >= 0

\* obstacle o lies on the heading line of the state, ahead of the front point
\* and beyond the front point of the end state
AheadOnHeadingLine(state, end, o) ==
    LET heading == VSub(state.sg_position, state.rear_position)
    IN  /\ Cross(VSub(o, state.sg_position), heading) = 0
        /\ Dot(VSub(o, state.sg_position), heading) > 0
        /\ Dot(VSub(o, end.sg_position), heading) > 0

\* C14: a straight step displaces both reference points by exactly
\* velocity * dt position units along the heading, and for an obstacle on the
\* heading line at distance D ahead of the front point, beyond the end
\* position, the clearance is D - velocity * dt - obstacle.radius -
\* footprint radius.  (velocity * dt is velocity * dt_ms / 1000; both sides
\* are multiplied by 1000.)
C14_StraightStepDisplacement ==
    (Simulated /\ Straight(SimIn) /\ ~Degenerate(SimIn)) =>
        /\ DisplacedAlongHeading(SimIn, SimIn.sg_position, SimOut.sg_position,
                                 SimIn.velocity * dt_ms)
        /\ DisplacedAlongHeading(SimIn, SimIn.rear_position, SimOut.rear_position,
                                 SimIn.velocity * dt_ms)
        /\ \A j \in 1..Len(obstacles) :
              (SimIn.velocity > 0 /\ Len(obstacles) = 1
                  /\ AheadOnHeadingLine(SimIn, SimOut, obstacles[j].center)) =>
                  1000 * returned.sim.distance =
                      1000 * (length(VSub(obstacles[j].center, SimIn.sg_position))
                                - obstacles[j].radius - car_circle_radius)
                      - SimIn.velocity * dt_ms

\* footprint circle i of the simulated step against obstacle j
SimCircles == { i \in 1..3 : ~IsNaN(getCarCircles(SimIn)[i].center) }

PairClearance(i, j) ==
    calculateDistance(StepICM(SimIn), obstacles[j], getCarCircles(SimIn)[i],
                      getCarCircles(SimOut)[i], Sign(get_rad_pi(SimIn.steer)))

\* d == R_point: the obstacle centre is as far from the ICM as the centre of
\* the footprint circle
OnPathRadius(i, j) ==
    length(VSub(obstacles[j].center, StepICM(SimIn)))
        = length(VSub(StepICM(SimIn), getCarCircles(SimIn)[i].center))

\* the obstacle is classified as between by lines 177-182
ClassifiedBetween(i, j) ==
    SectorTest(StepICM(SimIn), obstacles[j].center, getCarCircles(SimIn)[i].center,
               getCarCircles(SimOut)[i].center, Sign(get_rad_pi(SimIn.steer)))

EndpointMinimum(i, j) ==
    Min(CircleDistance(obstacles[j], getCarCircles(SimIn)[i]),
        CircleDistance(obstacles[j], getCarCircles(SimOut)[i]))

\* C15 (as stated): in curved motion calculateDistance returns
\* -obstacle.radius - footprint radius for every obstacle whose distance from
\* the ICM equals that of the footprint circle.
C15_OnRadiusClearance ==
    (Simulated /\ ~Straight(SimIn)) =>
        \A i \in SimCircles, j \in 1..Len(obstacles) :
            OnPathRadius(i, j) =>
                PairClearance(i, j) = -obstacles[j].radius - car_circle_radius

\* C15: in curved motion, for an obstacle whose distance from the ICM equals
\* that of the footprint circle, calculateDistance returns -obstacle.radius
\* - footprint radius when the obstacle is classified as between the start
\* and the end bearing, and the smaller of the distances to the start and
\* the end circle otherwise.
C15_OnRadiusClearanceInSector ==
    (Simulated /\ ~Straight(SimIn)) =>
        \A i \in SimCircles, j \in 1..Len(obstacles) :
            OnPathRadius(i, j) =>
                PairClearance(i, j) =
                    IF ClassifiedBetween(i, j)
                    THEN -obstacles[j].radius - car_circle_radius
                    ELSE EndpointMinimum(i, j)

C15_Witness ==
    /\ Simulated
    /\ ~Straight(SimIn)
    /\ SimIn.velocity > 0
    /\ \E i \in SimCircles, j \in 1..Len(obstacles) :
          /\ OnPathRadius(i, j)
          /\ ClassifiedBetween(i, j)
          /\ EndpointMinimum(i, j) > -obstacles[j].radius - car_circle_radius
          /\ returned.sim.distance = -obstacles[j].radius - car_circle_radius

\* C16: at every node each candidate is simulated from a copy of the node's
\* state: no step of the search changes the state of a node that stays on the
\* stack or the estimator's state, the root's state is the state findPath
\* read, every sub-call's state is the end state of its parent's current
\* candidate simulated from the parent's state, and every clearance of a
\* node is the clearance of the step simulated from the node's state.
C16_PrivateStateCopies ==
    [][ pc = "search" =>
          /\ bbState' = bbState
          /\ stack[1].state = call.state
          /\ \A n \in 1..Len(stack) :
                n <= Len(stack') => stack'[n].state = stack[n].state
          /\ \A n \in 2..Len(stack) :
                stack[n].state
                    = StepOf(stack[n - 1].state,
                             stack[n - 1].velocities[stack[n - 1].i],
                             obstacles).state
          /\ \A k \in 1..Len(Top.dists) :
                Top.dists[k]
                    = StepOf(Top.state, Top.velocities[k], obstacles).distance ]_vars

\* a second candidate of the root is being expanded after the first one was
\* expanded by a sub-call that simulated several candidates itself
C16_Witness ==
    /\ pc = "search"
    /\ Len(stack) = 2
    /\ stack[1].i >= 2
    /\ Len(Top.dists) >= 2

\* the sense in which the step turns the footprint about the ICM: the sign of
\* the angle distance / R_h of lines 130, 136 (1 is counter-clockwise)
SweepSense(state) == Sign(state.velocity) * Sign(get_rad_pi(state.steer))

\* obstacle j lies in the sector about the ICM that footprint circle i sweeps
\* from its start bearing to its end bearing
InSweptSector(i, j) ==
    LET ICM == StepICM(SimIn)
        o   == VSub(obstacles[j].center, ICM)
        p   == VSub(getCarCircles(SimIn)[i].center, ICM)
        q   == VSub(getCarCircles(SimOut)[i].center, ICM)
    IN  IF SweepSense(SimIn) > 0 THEN inbetween(o, p, q) ELSE inbetween(o, q, p)

\* C17: in a curved step, for either turn direction and either sign of the
\* velocity, an obstacle is classified as between exactly when it lies in
\* the sector the footprint circle sweeps during the step; otherwise the
\* endpoint minimum is returned.
C17_BetweenIsSweptSector ==
    (Simulated /\ ~Straight(SimIn)) =>
        \A i \in SimCircles, j \in 1..Len(obstacles) :
            /\ ClassifiedBetween(i, j) <=> InSweptSector(i, j)
            /\ ~InSweptSector(i, j) => PairClearance(i, j) = EndpointMinimum(i, j)

\* C18: every state the search reaches at depth >= 1 has a steering angle
\* strictly below 30 degrees in magnitude, so every node below the root has
\* at least 3 candidates; a node without candidates is the root, and the
\* root has none exactly when the estimator's steering angle is 40 degrees
\* or more in magnitude.
C18_NonRootSteerBelowBound ==
    pc = "search" =>
        /\ \A n \in 2..Len(stack) :
              /\ Abs(get_deg_180(stack[n].state.steer)) < 30
              /\ Len(stack[n].velocities) >= 3
        /\ \A n \in 1..Len(stack) :
              stack[n].velocities = << >> => n = 1
        /\ stack[1].velocities = << >>
              <=> Abs(get_deg_180(stack[1].state.steer)) >= 40

\* a node below the root with exactly 3 candidates, reached from a root whose
\* steering angle is outside the bound
C18_Witness ==
    /\ pc = "search"
    /\ Len(stack) = 2
    /\ Len(Top.velocities) = 3
    /\ Abs(get_deg_180(stack[1].state.steer)) >= 30

\* C19: with an empty obstacle list every node at depth d returns the value
\* 2 * collision_penalty * (max_depth - d + 1), and findPath returns the
\* first candidate generated from the estimator's state, the one with the
\* lowest admissible steering offset.
C19_EmptyListFirstCandidate ==
    (returned # None /\ call.obst = << >>) =>
        /\ returned.value
              = 2 * collision_penalty * (max_depth - returned.depth + 1)
        /\ returned.depth = 0 =>
              /\ getVelocities(call.state) # << >>
              /\ maximizing_velocity = getVelocities(call.state)[1]

====
